---- MODULE Spec2Model ----
(***************************************************************************)
(* Model of generate_kicks.py: the function generate_kick (lines 8-48) as  *)
(* a sequence of steps, one per statement group, and the module top level  *)
(* (lines 50-62) that creates the output directory and calls it four       *)
(* times.                                                                  *)
(*                                                                         *)
(* Numbers.  A duration is a whole number of ticks of 1/DurDen second      *)
(* (DurDen is a power of two, so sample_rate * duration is exact in        *)
(* binary floating point).  A decay is a whole number of milliseconds.     *)
(* An amplitude is an integer numerator over a denominator: signal and     *)
(* noise over 1, envelope and click_envelope over EnvScale, the buffer     *)
(* kick over kick.den.  sin and exp are not computed: the values of        *)
(* signal, envelope, noise and click_envelope are chosen from small sets   *)
(* that respect what the code fixes (envelope[0] = exp(-0) = 1,            *)
(* exponentials non-increasing in t, |sin| <= 1).                          *)
(*                                                                         *)
(* The contents of a buffer are kept only when it has at most MaxTrack     *)
(* samples; a longer buffer is represented by its length n alone.          *)
(***************************************************************************)
EXTENDS Integers, Sequences, FiniteSets

\* ---------------------------------------------------------------- bounds
MaxTrack == 3        \* buffers of up to this many samples keep their contents
MaxDurTicks == 3     \* durations 0..MaxDurTicks ticks are tried
MaxNoise == 1        \* noise draws range over -MaxNoise..MaxNoise
EnvScale == 2        \* envelopes take the values 0/EnvScale .. EnvScale/EnvScale
NumSeeds == 2        \* initial states of the global random generator

\* ------------------------------------------------------- program constants
DurDen == 256                    \* ticks per second (unit of args.duration)
DefaultDuration == 128           \* duration=0.5 s, in ticks
DefaultSampleRate == 44100
DefaultBaseFreq == 60
DefaultDecay == 300              \* decay=0.3 s, in ms
ClickDurNum == 5                 \* click_duration = 0.005 = 5/1000
ClickDurDen == 1000
PcmScale == 32767
HeaderBytes == 44                \* RIFF/WAVE header written by the wave module
NChannels == 1
SampWidth == 2
BufferSize == 4096               \* buffer of the file object behind wave.open
Unlimited == -1                  \* quota of a file that can grow without limit

OutputDir == "app/src/main/res/raw"
TestFile == "app/src/main/res/raw/test.wav"

\* The calls of lines 56-57 with their base frequencies and decays exchanged.
CALLS_Swapped ==
  << [filename |-> "app/src/main/res/raw/kick1.wav", duration |-> DefaultDuration,
      sample_rate |-> DefaultSampleRate, base_freq |-> 70, decay |-> 250],
     [filename |-> "app/src/main/res/raw/kick2.wav", duration |-> DefaultDuration,
      sample_rate |-> DefaultSampleRate, base_freq |-> 55, decay |-> 400],
     [filename |-> "app/src/main/res/raw/kick3.wav", duration |-> DefaultDuration,
      sample_rate |-> DefaultSampleRate, base_freq |-> 85, decay |-> 200],
     [filename |-> "app/src/main/res/raw/kick4.wav", duration |-> DefaultDuration,
      sample_rate |-> DefaultSampleRate, base_freq |-> 50, decay |-> 500] >>

\* The four calls of lines 56-59: filename, base_freq (Hz), decay (ms); the
\* duration and the sample rate are the defaults of line 8.
CALLS ==
  << [filename |-> "app/src/main/res/raw/kick1.wav", duration |-> DefaultDuration,
      sample_rate |-> DefaultSampleRate, base_freq |-> 55, decay |-> 400],
     [filename |-> "app/src/main/res/raw/kick2.wav", duration |-> DefaultDuration,
      sample_rate |-> DefaultSampleRate, base_freq |-> 70, decay |-> 250],
     [filename |-> "app/src/main/res/raw/kick3.wav", duration |-> DefaultDuration,
      sample_rate |-> DefaultSampleRate, base_freq |-> 85, decay |-> 200],
     [filename |-> "app/src/main/res/raw/kick4.wav", duration |-> DefaultDuration,
      sample_rate |-> DefaultSampleRate, base_freq |-> 50, decay |-> 500] >>

ScriptFiles == { CALLS[k].filename : k \in 1..4 }
AllFiles == ScriptFiles \cup {TestFile}

\* Sample rates tried when generate_kick is called on its own: they give
\* click_samples = 0, 1 and 2.
KickRates == {100, 200, 400}

\* ------------------------------------------------------------ pure helpers
Abs(x) == IF x < 0 THEN -x ELSE x

Sign(x) == IF x < 0 THEN -1 ELSE IF x > 0 THEN 1 ELSE 0

Min(a, b) == IF a < b THEN a ELSE b

\* int(x) of a non-negative quotient a/b
IntOf(a, b) == a \div b

\* Division truncating toward zero (the C cast behind astype(np.int16)).
TruncDiv(a, b) == Sign(a) * Sign(b) * (Abs(a) \div Abs(b))

\* ------------------------------------------------- generate_kick, pure parts
\* line 12: the number of samples, int(sample_rate * duration)
NumSamples(a) == IntOf(a.sample_rate * a.duration, DurDen)

\* line 29: click_samples = int(sample_rate * click_duration)
ClickSamples(a) == IntOf(a.sample_rate * ClickDurNum, ClickDurDen)

\* Whether an array of len samples keeps its contents in the model.
Tracked(len) == len <= MaxTrack

\* The values an exponential of a non-decreasing, non-negative argument that
\* starts at 0 can take (lines 22 and 31): first value exp(-0) = 1, then
\* non-increasing, never negative.
ExpSeqs(len) ==
  { s \in [1..len -> 0..EnvScale] :
      /\ len >= 1 => s[1] = EnvScale
      /\ \A i \in 1..(len - 1) : s[i + 1] <= s[i] }

\* line 19: np.sin(phase), values in [-1, 1]
SignalSeqs(len) == [1..len -> {-1, 0, 1}]

\* line 30: np.random.normal(0, 0.3, click_samples)
NoiseSeqs(len) == [1..len -> (-MaxNoise)..MaxNoise]

\* line 25 / line 32: elementwise product of two arrays of the same length
Times(a, b) == [i \in 1..Len(a) |-> a[i] * b[i]]

\* line 33: kick[:click_samples] is a view of min(len(kick), click_samples)
\* samples; the in-place += needs click to broadcast to that shape.
BroadcastOK(len, cs) == Min(len, cs) = cs \/ cs = 1

\* Variant of line 33 that assigns the click instead of adding it.
Overlay_Replace(vals, clk, cs) ==
  [i \in 1..Len(vals) |-> IF i <= cs THEN clk[i] ELSE vals[i]]

\* line 33: kick[:click_samples] += click, on the numerators
Overlay(vals, clk, cs) ==
  [i \in 1..Len(vals) |-> IF i <= cs THEN vals[i] + clk[i] ELSE vals[i]]

RECURSIVE MaxAbs(_)
MaxAbs(vals) ==
  IF Len(vals) = 0 THEN 0
  ELSE LET r == MaxAbs(Tail(vals))
           h == Abs(Head(vals))
       IN IF h > r THEN h ELSE r

RECURSIVE MaxOf(_)
MaxOf(vals) ==
  IF Len(vals) = 1 THEN Head(vals)
  ELSE LET r == MaxOf(Tail(vals))
       IN IF Head(vals) > r THEN Head(vals) ELSE r

\* Variant of line 36 without np.abs: np.max(kick).
Peak_NoAbs(vals) == MaxOf(vals)

\* line 36: np.max(np.abs(kick)), of a non-empty array
Peak(vals) == MaxAbs(vals)

\* Variant of line 39 that rounds down instead of toward zero.
Quantize_Floor(num, den) == (num * PcmScale) \div den

\* line 39: (kick * 32767).astype(np.int16) of one finite sample num/den
Quantize(num, den) == TruncDiv(num * PcmScale, den)

\* line 39 on NaN (0/0 after normalising a silent buffer): the float to
\* int16 cast is undefined; builds produce 0 or the minimum value.
NaNCast == {-32768, 0}

\* Size in bytes of a file on disk.
FileSize(f) == IF f.exists THEN f.size ELSE 0

\* The most bytes a file may hold when it is opened (file size limit, space
\* left on the device): no limit, nothing, less than a short file, less than
\* a file of the script, and a file of the script less exactly one buffer.
Quotas == {Unlimited, 0, 48, 1000, 40048}

\* Whether the file object keeps a rest of rem bytes in its buffer instead of
\* writing it directly.  A rest of exactly the buffer size is kept by Python
\* up to 3.12 and written directly by Python 3.13 (direct).
KeepsRest(rem, direct) ==
  IF direct THEN rem < BufferSize ELSE rem <= BufferSize

\* Bytes of a raw write of k bytes that reach the file f.
RawWrite(f, k) ==
  IF f.quota = Unlimited THEN k ELSE Min(k, f.quota - f.size)

\* ------------------------------------------------------------------ state
VARIABLES
  pc,             \* the caller: module top level, or "harness" for a lone call
  idx,            \* number of generate_kick calls started
  started,        \* the arguments of those calls, in order
  kpc,            \* position inside generate_kick ("idle" outside)
  args,           \* arguments of the current call
  n,              \* len(t), line 12
  signal,         \* line 19
  envelope,       \* line 22
  kick,           \* lines 25, 33, 36: [vals, den], sample i is vals[i]/den
  click_samples,  \* line 29
  noise,          \* line 30
  click_envelope, \* line 31
  click,          \* line 32 (over EnvScale)
  kick_int,       \* line 39
  wav,            \* the Wave_write object of line 42
  rng,            \* np.random global generator: [seed, drawn]
  rng_read,       \* generator state read by each call, in order
  dir_exists,     \* whether output_dir exists
  files,          \* the files of output_dir
  handles,        \* files with an open handle
  out,            \* lines printed
  exc             \* exception raised or in flight ("none" if none)

vars == << pc, idx, started, kpc, args, n, signal, envelope, kick,
           click_samples, noise, click_envelope, click, kick_int, wav, rng,
           rng_read, dir_exists, files, handles, out, exc >>

locals == << n, signal, envelope, kick, click_samples, noise, click_envelope,
             click, kick_int, wav >>

env == << dir_exists, files, handles, out >>

\* A file: its size on disk, the frame count and rate its header declares
\* (0 while the header is not completely on disk), and its quota.
NoFile == [exists |-> FALSE, size |-> 0, frames |-> 0, rate |-> 0,
           quota |-> Unlimited]

\* A file left by an earlier run of the script.
OldFile == [exists |-> TRUE,
            size |-> HeaderBytes + NumSamples(CALLS[1]) * NChannels * SampWidth,
            frames |-> NumSamples(CALLS[1]), rate |-> DefaultSampleRate,
            quota |-> Unlimited]

NoBuf == [vals |-> << >>, den |-> EnvScale]

\* The Wave_write object: the parameters set, whether the header has been
\* written, the data length the header was written with, the data bytes
\* written, and the bytes still in the buffer of its file object.
NoWav == [nchannels |-> 0, sampwidth |-> 0, framerate |-> 0,
          headerwritten |-> FALSE, datalength |-> 0, datawritten |-> 0,
          buffered |-> 0]

NoArgs == [filename |-> "", duration |-> 0, sample_rate |-> 0,
           base_freq |-> 0, decay |-> 0]

LocalsUnset ==
  /\ n = 0 /\ signal = << >> /\ envelope = << >> /\ kick = NoBuf
  /\ click_samples = 0 /\ noise = << >> /\ click_envelope = << >>
  /\ click = << >> /\ kick_int = << >> /\ wav = NoWav

InitEnv ==
  /\ \E st \in {"absent", "empty", "old"} :
       /\ dir_exists = (st # "absent")
       /\ files = [f \in AllFiles |->
                     IF st = "old" /\ f \in ScriptFiles THEN OldFile ELSE NoFile]
  /\ handles = {}
  /\ out = << >>
  /\ exc = "none"
  /\ \E s \in 1..NumSeeds : rng = [seed |-> s, drawn |-> 0]
  /\ rng_read = << >>

\* The script: python generate_kicks.py
Init ==
  /\ pc = "makedirs" /\ idx = 0 /\ started = << >>
  /\ kpc = "idle" /\ args = NoArgs
  /\ LocalsUnset
  /\ InitEnv

\* The arguments tried when generate_kick is called on its own.
KickArgs ==
  { [filename |-> TestFile, duration |-> d, sample_rate |-> sr,
     base_freq |-> DefaultBaseFreq, decay |-> DefaultDecay] :
       d \in 0..MaxDurTicks, sr \in KickRates }
  \cup
  { [filename |-> TestFile, duration |-> DefaultDuration,
     sample_rate |-> DefaultSampleRate,
     base_freq |-> DefaultBaseFreq, decay |-> DefaultDecay] }

\* One call generate_kick(filename, duration, sample_rate) from a harness, in
\* an existing and empty output directory.
InitKick ==
  /\ pc = "harness" /\ idx = 1
  /\ args \in KickArgs /\ started = << args >>
  /\ kpc = "L12"
  /\ LocalsUnset
  /\ dir_exists = TRUE
  /\ files = [f \in AllFiles |-> NoFile]
  /\ handles = {}
  /\ out = << >>
  /\ exc = "none"
  /\ rng = [seed |-> 1, drawn |-> 0]
  /\ rng_read = << >>

\* ------------------------------------------------------------ generate_kick
\* Variant in which the caller catches the exception and goes on.
Raise_Swallowed(e) ==
  /\ kpc' = "idle"
  /\ pc' = IF pc = "harness" THEN "failed"
           ELSE IF idx = 4 THEN "summary" ELSE "calls"
  /\ exc' = "none"

\* An exception leaves generate_kick and, uncaught, ends the caller.
Raise(e) == kpc' = "raised" /\ pc' = "failed" /\ exc' = e

\* Bytes of kick_int.tobytes(): two per int16 sample.
DataBytes == 2 * (IF Tracked(n) THEN Len(kick_int) ELSE n)

\* line 12: t = np.linspace(0, duration, int(sample_rate * duration))
TimeAxis ==
  /\ kpc = "L12"
  /\ n' = NumSamples(args)
  /\ kpc' = "L19"
  /\ UNCHANGED << pc, idx, started, args, signal, envelope, kick, click_samples,
                  noise, click_envelope, click, kick_int, wav, rng, rng_read,
                  env, exc >>

\* lines 15-19: freq, phase, signal = np.sin(phase)
Tone ==
  /\ kpc = "L19"
  /\ signal' \in (IF Tracked(n) THEN SignalSeqs(n) ELSE {<< >>})
  /\ kpc' = "L22"
  /\ UNCHANGED << pc, idx, started, args, n, envelope, kick, click_samples,
                  noise, click_envelope, click, kick_int, wav, rng, rng_read,
                  env, exc >>

\* line 22: envelope = np.exp(-t / decay)
Envelope ==
  /\ kpc = "L22"
  /\ envelope' \in (IF Tracked(n) THEN ExpSeqs(n) ELSE {<< >>})
  /\ kpc' = "L25"
  /\ UNCHANGED << pc, idx, started, args, n, signal, kick, click_samples,
                  noise, click_envelope, click, kick_int, wav, rng, rng_read,
                  env, exc >>

\* line 25: kick = signal * envelope
ApplyEnvelope ==
  /\ kpc = "L25"
  /\ kick' = [vals |-> Times(signal, envelope), den |-> EnvScale]
  /\ kpc' = "L28"
  /\ UNCHANGED << pc, idx, started, args, n, signal, envelope, click_samples,
                  noise, click_envelope, click, kick_int, wav, rng, rng_read,
                  env, exc >>

\* Variant of line 30 drawing from a generator of its own.
Draw_NoAdvance(g, cs) == g

\* line 30: the draw advances the global generator by click_samples variates
Draw(g, cs) == [g EXCEPT !.drawn = g.drawn + cs]

\* lines 28-32: click_samples, noise, click_envelope, click
Click ==
  /\ kpc = "L28"
  /\ LET cs == ClickSamples(args) IN
       /\ click_samples' = cs
       /\ rng_read' = Append(rng_read, rng)
       /\ rng' = Draw(rng, cs)
       /\ \E nz \in (IF Tracked(cs) THEN NoiseSeqs(cs) ELSE {<< >>}),
             ce \in (IF Tracked(cs) THEN ExpSeqs(cs) ELSE {<< >>}) :
            /\ noise' = nz
            /\ click_envelope' = ce
            /\ click' = Times(nz, ce)
  /\ kpc' = "L33"
  /\ UNCHANGED << pc, idx, started, args, n, signal, envelope, kick, kick_int,
                  wav, env, exc >>

\* line 33: kick[:click_samples] += click
AddClick ==
  /\ kpc = "L33"
  /\ IF BroadcastOK(n, click_samples)
       THEN /\ kick' = [kick EXCEPT !.vals =
                          IF Tracked(n) THEN Overlay(kick.vals, click, click_samples)
                          ELSE << >>]
            /\ kpc' = "L36"
            /\ UNCHANGED << pc, exc >>
       ELSE /\ Raise("ValueError")
            /\ UNCHANGED kick
  /\ UNCHANGED << idx, started, args, n, signal, envelope, click_samples,
                  noise, click_envelope, click, kick_int, wav, rng, rng_read,
                  env >>

\* line 36: kick = kick / np.max(np.abs(kick))
Normalize ==
  /\ kpc = "L36"
  /\ IF n = 0
       THEN /\ Raise("ValueError")
            /\ UNCHANGED kick
       ELSE /\ kick' = [kick EXCEPT !.den =
                          IF Tracked(n) THEN Peak(kick.vals) ELSE kick.den]
            /\ kpc' = "L39"
            /\ UNCHANGED << pc, exc >>
  /\ UNCHANGED << idx, started, args, n, signal, envelope, click_samples,
                  noise, click_envelope, click, kick_int, wav, rng, rng_read,
                  env >>

\* line 39: kick_int = (kick * 32767).astype(np.int16)
ToPcm ==
  /\ kpc = "L39"
  /\ \E v \in NaNCast :
       kick_int' =
         IF ~Tracked(n) THEN << >>
         ELSE [i \in 1..Len(kick.vals) |->
                 IF kick.den = 0 THEN v ELSE Quantize(kick.vals[i], kick.den)]
  /\ kpc' = "L42"
  /\ UNCHANGED << pc, idx, started, args, n, signal, envelope, kick,
                  click_samples, noise, click_envelope, click, wav, rng,
                  rng_read, env, exc >>

\* line 42: wave.open(filename, 'w') creates or truncates the file
WavOpen ==
  /\ kpc = "L42"
  /\ \E ok \in BOOLEAN, q \in Quotas :
       IF ok /\ dir_exists
         THEN /\ handles' = handles \cup {args.filename}
              /\ files' = [files EXCEPT ![args.filename] =
                             [exists |-> TRUE, size |-> 0, frames |-> 0,
                              rate |-> 0, quota |-> q]]
              /\ kpc' = "L43"
              /\ UNCHANGED << pc, exc >>
         ELSE /\ Raise("OSError")
              /\ UNCHANGED << handles, files >>
  /\ UNCHANGED << idx, started, args, n, signal, envelope, kick, click_samples,
                  noise, click_envelope, click, kick_int, wav, rng, rng_read,
                  dir_exists, out >>

\* lines 43-45: setnchannels(1), setsampwidth(2), setframerate(sample_rate);
\* setframerate rejects a rate that is not positive.
SetParams ==
  /\ kpc = "L43"
  /\ IF args.sample_rate > 0
       THEN /\ wav' = [wav EXCEPT !.nchannels = NChannels, !.sampwidth = SampWidth,
                                  !.framerate = args.sample_rate]
            /\ kpc' = "L46"
            /\ UNCHANGED exc
       ELSE /\ wav' = [wav EXCEPT !.nchannels = NChannels, !.sampwidth = SampWidth]
            /\ kpc' = "exit"
            /\ exc' = "wave.Error"
  /\ UNCHANGED << pc, idx, started, args, n, signal, envelope, kick,
                  click_samples, noise, click_envelope, click, kick_int, rng,
                  rng_read, env >>

\* Frames that a data length of b bytes makes (len // (nchannels * sampwidth)).
FramesOf(b) ==
  IF wav.nchannels * wav.sampwidth = 0 THEN 0
  ELSE b \div (wav.nchannels * wav.sampwidth)

\* line 46: wav.writeframes(kick_int.tobytes()).  The header and then the data
\* go to the buffered file object.  What fits in the buffer stays there and
\* reaches the file at the close.  Data that do not fit make the buffer (the
\* header) flush; data the buffer does not keep are then written directly,
\* and a rest that it keeps stays in it.  A raw write that the quota cuts
\* short before that raises OSError, before _datawritten is updated.
WriteFrames ==
  /\ kpc = "L46"
  /\ \E direct \in BOOLEAN :
       LET f == files[args.filename]
           data == DataBytes
           hw == RawWrite(f, HeaderBytes)
           fh == [f EXCEPT !.size = HeaderBytes, !.frames = FramesOf(data),
                           !.rate = wav.framerate]
           dw == RawWrite(fh, data)
       IN IF HeaderBytes + data <= BufferSize
            THEN /\ wav' = [wav EXCEPT !.headerwritten = TRUE, !.datalength = data,
                                       !.datawritten = data,
                                       !.buffered = HeaderBytes + data]
                 /\ UNCHANGED << files, exc >>
          ELSE IF hw < HeaderBytes
            THEN /\ files' = [files EXCEPT ![args.filename].size = f.size + hw]
                 /\ wav' = [wav EXCEPT !.headerwritten = TRUE, !.datalength = data,
                                       !.buffered = HeaderBytes - hw]
                 /\ exc' = "OSError"
          ELSE IF KeepsRest(data, direct)
            THEN /\ files' = [files EXCEPT ![args.filename] = fh]
                 /\ wav' = [wav EXCEPT !.headerwritten = TRUE, !.datalength = data,
                                       !.datawritten = data, !.buffered = data]
                 /\ UNCHANGED exc
          ELSE IF ~KeepsRest(data - dw, direct)
            THEN /\ files' = [files EXCEPT ![args.filename] =
                                [fh EXCEPT !.size = HeaderBytes + dw]]
                 /\ wav' = [wav EXCEPT !.headerwritten = TRUE, !.datalength = data]
                 /\ exc' = "OSError"
          ELSE /\ files' = [files EXCEPT ![args.filename] =
                              [fh EXCEPT !.size = HeaderBytes + dw]]
               /\ wav' = [wav EXCEPT !.headerwritten = TRUE, !.datalength = data,
                                     !.datawritten = data, !.buffered = data - dw]
               /\ UNCHANGED exc
  /\ kpc' = "exit"
  /\ UNCHANGED << pc, idx, started, args, n, signal, envelope, kick,
                  click_samples, noise, click_envelope, click, kick_int,
                  rng, rng_read, dir_exists, handles, out >>

\* Variant of line 42 without the with statement: the handle is released only
\* when no exception is in flight.
Release_OnSuccess(h, f, e) == IF e = "none" THEN h \ {f} ELSE h

\* line 42: leaving the with block releases the handle, whatever happened.
Release(h, f, e) == h \ {f}

\* line 42, leaving the with block: Wave_write.__exit__ calls close().  close
\* writes a header of 0 frames if none was written, flushes the buffer,
\* rewrites the header when the data written differ from the length it was
\* written with (and then takes the data written as that length), and always
\* releases the handle.  A flush that the quota cuts
\* short raises OSError; otherwise an exception of the body propagates.
WavExit ==
  /\ kpc = "exit"
  /\ handles' = Release(handles, args.filename, exc)
  /\ LET f == files[args.filename]
         newhdr == ~wav.headerwritten /\ wav.framerate > 0
         pending == wav.buffered + (IF newhdr THEN HeaderBytes ELSE 0)
         w == RawWrite(f, pending)
         ok == (w = pending)
         patch == wav.headerwritten /\ wav.datalength # wav.datawritten
         size2 == f.size + w
     IN /\ files' = [files EXCEPT ![args.filename] =
                       [f EXCEPT
                          !.size = size2,
                          !.frames = IF size2 < HeaderBytes THEN 0
                                     ELSE IF ok /\ patch THEN FramesOf(wav.datawritten)
                                     ELSE FramesOf(wav.datalength),
                          !.rate = IF size2 < HeaderBytes THEN 0 ELSE wav.framerate]]
        /\ wav' = [wav EXCEPT !.headerwritten = @ \/ newhdr,
                              !.buffered = pending - w,
                              !.datalength = IF ok /\ patch THEN wav.datawritten ELSE @]
        /\ IF ~ok THEN Raise("OSError")
           ELSE IF exc # "none" THEN Raise(exc)
           ELSE kpc' = "L48" /\ UNCHANGED << pc, exc >>
  /\ UNCHANGED << idx, started, args, n, signal, envelope, kick, click_samples,
                  noise, click_envelope, click, kick_int, rng, rng_read,
                  dir_exists, out >>

\* line 48: print(f"Generated {filename}"), then return to the caller
PrintGenerated ==
  /\ kpc = "L48"
  /\ out' = Append(out, [kind |-> "Generated", file |-> args.filename])
  /\ kpc' = "idle"
  /\ pc' = IF pc = "harness" THEN "done"
           ELSE IF idx = Len(CALLS) THEN "summary" ELSE "calls"
  /\ UNCHANGED << idx, started, args, locals, rng, rng_read, dir_exists, files,
                  handles, exc >>

generate_kick ==
  \/ TimeAxis \/ Tone \/ Envelope \/ ApplyEnvelope \/ Click \/ AddClick
  \/ Normalize \/ ToPcm \/ WavOpen \/ SetParams \/ WriteFrames \/ WavExit
  \/ PrintGenerated

\* --------------------------------------------------------- module top level
\* line 53: os.makedirs(output_dir, exist_ok=True)
Makedirs ==
  /\ pc = "makedirs"
  /\ \E ok \in BOOLEAN :
       IF ok \/ dir_exists
         THEN dir_exists' = TRUE /\ pc' = "calls" /\ UNCHANGED exc
         ELSE dir_exists' = dir_exists /\ pc' = "failed" /\ exc' = "OSError"
  /\ UNCHANGED << idx, started, kpc, args, locals, rng, rng_read, files,
                  handles, out >>

\* lines 56-59: the next call of generate_kick; its locals are new
CallKick ==
  /\ pc = "calls" /\ kpc = "idle" /\ idx < Len(CALLS)
  /\ idx' = idx + 1
  /\ args' = CALLS[idx + 1]
  /\ started' = Append(started, CALLS[idx + 1])
  /\ kpc' = "L12"
  /\ n' = 0 /\ signal' = << >> /\ envelope' = << >> /\ kick' = NoBuf
  /\ click_samples' = 0 /\ noise' = << >> /\ click_envelope' = << >>
  /\ click' = << >> /\ kick_int' = << >> /\ wav' = NoWav
  /\ UNCHANGED << pc, rng, rng_read, env, exc >>

\* line 61: print("\nKick drum sounds generated successfully!")
PrintSummary ==
  /\ pc = "summary"
  /\ out' = Append(out, [kind |-> "summary", file |-> ""])
  /\ pc' = "saved"
  /\ UNCHANGED << idx, started, kpc, args, locals, rng, rng_read, dir_exists,
                  files, handles, exc >>

\* line 62: print(f"Files saved to: {output_dir}/")
PrintSaved ==
  /\ pc = "saved"
  /\ out' = Append(out, [kind |-> "saved", file |-> OutputDir])
  /\ pc' = "done"
  /\ UNCHANGED << idx, started, kpc, args, locals, rng, rng_read, dir_exists,
                  files, handles, exc >>

Next == Makedirs \/ CallKick \/ generate_kick \/ PrintSummary \/ PrintSaved

Spec == Init /\ [][Next]_vars

NextKick == generate_kick

SpecKick == InitKick /\ [][NextKick]_vars

\* =================================================================== claims
\* Positions of generate_kick after line 33, after line 36 and after line 39.
AfterClick == {"L36", "L39", "L42", "L43", "L46", "exit", "L48", "idle"}

AfterNormalize == AfterClick \ {"L36"}

AfterToPcm == AfterNormalize \ {"L39"}

\* generate_kick has ended: it returned or an exception left it.
Ended == kpc \in {"idle", "raised"} /\ idx > 0

\* Strictly positive duration, sample rate, base frequency and decay.
ValidArgs(a) ==
  a.duration > 0 /\ a.sample_rate > 0 /\ a.base_freq > 0 /\ a.decay > 0

\* floor(sampleRate x durationSeconds) of the spec, computed exactly.
SpecFrames(a) ==
  CHOOSE m \in 0..(a.sample_rate * a.duration) :
    m * DurDen <= a.sample_rate * a.duration /\ a.sample_rate * a.duration < (m + 1) * DurDen

\* The file f holds, on disk, a header declaring m frames and the m frames.
Written(f, m) ==
  /\ files[f].exists
  /\ files[f].size = HeaderBytes + m * NChannels * SampWidth
  /\ files[f].frames = m

\* ----- C1
C1_Expected ==
  << << "app/src/main/res/raw/kick1.wav", 55, 400 >>,
     << "app/src/main/res/raw/kick2.wav", 70, 250 >>,
     << "app/src/main/res/raw/kick3.wav", 85, 200 >>,
     << "app/src/main/res/raw/kick4.wav", 50, 500 >> >>

\* C1: the script creates the output directory first (no error when it already
\* exists), then makes the generation calls in the order kick1..kick4 with
\* (base frequency, decay) = (55, 0.4), (70, 0.25), (85, 0.2), (50, 0.5); a
\* call has written and closed its file before the next one starts, a
\* completed run has made exactly four calls, and no other file is written.
C1_RunOrder ==
  /\ idx = Len(started) /\ idx <= 4
  /\ idx > 0 => dir_exists
  /\ (pc = "failed" /\ idx = 0) => ~dir_exists
  /\ \A k \in 1..Len(started) :
       /\ started[k].filename = C1_Expected[k][1]
       /\ started[k].base_freq = C1_Expected[k][2]
       /\ started[k].decay = C1_Expected[k][3]
       /\ started[k].duration * 2 = DurDen
       /\ started[k].sample_rate = 44100
  /\ \A k \in 1..(idx - 1) :
       /\ Written(C1_Expected[k][1], 22050)
       /\ C1_Expected[k][1] \notin handles
  /\ \A k \in (idx + 1)..4 : files[C1_Expected[k][1]] \in {NoFile, OldFile}
  /\ files[TestFile] = NoFile
  /\ pc \in {"summary", "saved", "done"} =>
       /\ idx = 4 /\ kpc = "idle"
       /\ \A k \in 1..4 : Written(C1_Expected[k][1], 22050)

C1_Witness ==
  /\ pc = "done" /\ idx = 4 /\ handles = {}
  /\ \A k \in 1..4 : Written(C1_Expected[k][1], 22050)

\* ----- C2
\* C2: for valid parameters, the call ends with floor(sampleRate x duration)
\* frames in the file and twice as many data bytes (I/O failures aside); for
\* duration 0.5 and rate 44100 that is 22050 frames and 44144 bytes.
C2_FrameCount ==
  (Ended /\ ValidArgs(args) /\ exc # "OSError") =>
     /\ Written(args.filename, SpecFrames(args))
     /\ FileSize(files[args.filename]) = HeaderBytes + 2 * SpecFrames(args)
     /\ (args.duration * 2 = DurDen /\ args.sample_rate = 44100) =>
          /\ files[args.filename].frames = 22050
          /\ FileSize(files[args.filename]) = 44144

\* ----- C3
\* C3: after normalization of a buffer that was not silent, every sample has
\* absolute value at most 1 and some sample has absolute value exactly 1.
C3_PeakIsOne ==
  (kpc \in AfterNormalize /\ Tracked(n) /\ \E i \in 1..n : kick.vals[i] # 0) =>
     /\ kick.den # 0
     /\ \A i \in 1..n : Abs(kick.vals[i]) <= Abs(kick.den)
     /\ \E i \in 1..n : Abs(kick.vals[i]) = Abs(kick.den)

\* A buffer whose peak before normalization exceeded 1 and was negative.
C3_Witness ==
  /\ kpc = "L39" /\ Tracked(n) /\ n >= 2
  /\ kick.den > EnvScale
  /\ \E i \in 1..n : kick.vals[i] = -kick.den
  /\ \E i \in 1..n : kick.vals[i] > 0 /\ kick.vals[i] < kick.den

\* ----- C4
\* C4: the click stage leaves the buffer length unchanged, adds the click
\* value to each of the first click_samples samples of signal * envelope and
\* leaves every later sample equal to signal * envelope.
C4_ClickFrame ==
  (kpc \in AfterClick /\ Tracked(n)) =>
     /\ Len(kick.vals) = n
     /\ \A i \in 1..n :
          kick.vals[i] =
            signal[i] * envelope[i]
              + (IF i <= click_samples THEN noise[i] * click_envelope[i] ELSE 0)

\* A buffer longer than the click, with a non-zero click value added to a
\* non-zero sample and a non-zero sample beyond the click.
C4_Witness ==
  /\ kpc = "L36" /\ Tracked(n)
  /\ click_samples >= 2 /\ n > click_samples
  /\ \E i \in 1..click_samples :
       /\ click[i] # 0 /\ signal[i] * envelope[i] # 0
       /\ kick.vals[i] = signal[i] * envelope[i] + click[i]
  /\ kick.vals[n] # 0

\* ----- C5
\* C5: with strictly positive parameters generate_kick raises nothing of its
\* own: it passes the click overlay and the normalization, and a call that
\* returns has written floor(sampleRate x duration) frames.
C5_NoInternalFailure ==
  ValidArgs(args) =>
     /\ exc \notin {"ValueError", "wave.Error"}
     /\ (kpc = "idle" /\ idx > 0) => Written(args.filename, SpecFrames(args))

\* ----- C6
\* C6: with duration 0 the buffer is empty and the call goes on, without an
\* error, to write a file that holds a header and no frames.
C6_ZeroDuration ==
  (idx > 0 /\ args.duration = 0) =>
     /\ kpc # "L12" => n = 0
     /\ kpc = "raised" => exc = "OSError"
     /\ kpc = "idle" => /\ Written(args.filename, 0)
                        /\ FileSize(files[args.filename]) = HeaderBytes

\* ----- C7
Generated(f) == \E j \in 1..Len(out) : out[j] = [kind |-> "Generated", file |-> f]

SummaryPrinted == \E j \in 1..Len(out) : out[j].kind = "summary"

C7_State ==
  /\ \A j, k \in 1..Len(started) : started[j].filename = started[k].filename => j = k
  /\ pc = "failed" =>
       /\ ~SummaryPrinted
       /\ \A k \in (idx + 1)..4 :
            /\ ~Generated(C1_Expected[k][1])
            /\ files[C1_Expected[k][1]] \in {NoFile, OldFile}
       /\ idx > 0 => ~Generated(C1_Expected[idx][1])
  /\ SummaryPrinted =>
       \A k \in 1..4 : Written(C1_Expected[k][1], 22050) /\ Generated(C1_Expected[k][1])
  /\ \A f \in AllFiles :
       Generated(f) => Written(f, 22050) /\ f \notin handles

\* C7: an error ends the run: nothing happens after a failure (no retry, no
\* later file), the summary line is printed only when all four files have
\* been written, and a "Generated" line only after its file has been written
\* and closed.
C7_ErrorsTerminal == [](C7_State) /\ [][pc # "failed"]_vars

\* The write of the second file failed after the first file was generated.
C7_Witness ==
  /\ pc = "failed" /\ idx = 2 /\ exc = "OSError"
  /\ wav.framerate > 0
  /\ Generated(C1_Expected[1][1])
  /\ files[C1_Expected[2][1]].exists

\* ----- C8
\* C8 as stated: an invocation reads no state written by an earlier one, the
\* state of the random source included: each invocation reads the generator
\* as it was before any invocation ran.
C8_NoSharedState ==
  /\ \A k \in 1..Len(rng_read) : rng_read[k] = [seed |-> rng.seed, drawn |-> 0]
  /\ kpc = "L12" => LocalsUnset

\* C8 amended: the invocations share nothing but the global random generator:
\* invocation k starts with new locals and reads the generator state left by
\* invocation k-1, that is the initial state advanced by (k-1) * 220 draws.
C8_SharedGeneratorOnly ==
  /\ \A k \in 1..Len(rng_read) :
       rng_read[k] = [seed |-> rng.seed, drawn |-> (k - 1) * 220]
  /\ kpc = "L12" => LocalsUnset
  /\ Len(rng_read) <= idx

C8_Witness ==
  /\ Len(rng_read) = 4 /\ rng_read[4].drawn = 660 /\ rng.drawn = 880
  /\ pc = "done"

\* ----- C9
\* C9: every stored value is the normalized sample times 32767 truncated
\* toward zero; it lies in -32767..32767 and a sample of +1 or -1 is stored
\* as +32767 or -32767.
C9_Quantization ==
  (kpc \in AfterToPcm /\ Tracked(n) /\ kick.den > 0) =>
     \A i \in 1..n :
       LET q == kick_int[i]
           v == kick.vals[i]
       IN /\ q >= -32767 /\ q <= 32767
          /\ Abs(q) * kick.den <= Abs(v) * 32767
          /\ Abs(v) * 32767 < (Abs(q) + 1) * kick.den
          /\ q # 0 => Sign(q) = Sign(v)
          /\ Abs(v) = kick.den => q = Sign(v) * 32767

\* A negative sample whose product with 32767 is not whole, next to a peak.
C9_Witness ==
  /\ kpc = "L42" /\ Tracked(n) /\ kick.den > 0
  /\ \E i \in 1..n :
       /\ kick.vals[i] < 0 /\ (kick.vals[i] * 32767) % kick.den # 0
       /\ kick_int[i] < 0
  /\ \E i \in 1..n : kick_int[i] = 32767

\* ----- C10
\* C10: at most one output handle is open at any time, it is the handle of
\* the current call inside its with block, and none is open once
\* generate_kick has returned or an exception has left it.
C10_HandleClosed ==
  /\ Cardinality(handles) <= 1
  /\ handles # {} => handles = {args.filename} /\ kpc \in {"L43", "L46", "exit"}
  /\ kpc \in {"L43", "L46", "exit"} => handles = {args.filename}

\* The write failed inside the with block and the exception has left the call.
C10_Witness ==
  /\ kpc = "raised" /\ exc = "OSError" /\ wav.framerate > 0
  /\ wav.headerwritten /\ wav.datawritten = 0
  /\ files[args.filename].exists /\ files[args.filename].frames = 0
  /\ files[args.filename].size > HeaderBytes
  /\ handles = {}
====
